---- MODULE Spec2Model ----
(***************************************************************************)
(* MoneyBird backend: the stage functions of agents.py, the LangGraph      *)
(* wiring of workflow.py and the state schema of schemas.py.               *)
(*                                                                         *)
(* Python dicts are TLA+ functions whose DOMAIN is the set of keys that    *)
(* are present, so d.get(k, default) is Get(d, k, default) and bool(d) is  *)
(* DOMAIN d # {}.  Texts are sequences of tokens, so "" is <<>>.           *)
(*                                                                         *)
(* Four specifications:                                                    *)
(*   Spec        one turn of run_mindmoney_workflow: the compiled graph    *)
(*               executed in supersteps, the channels of MindMoneyState;   *)
(*   SpecStages  each stage function of agents.py applied to a Turn Record *)
(*               drawn from the records Intake and FinancialAnalysis can   *)
(*               leave behind;                                             *)
(*   SpecApi     one request to the chat or the streaming endpoint of      *)
(*               main.py, step by step between its awaits;                 *)
(*   SpecStore   calls of RedisStateManager.append_to_history by two       *)
(*               requests of one session, step by step between awaits.     *)
(***************************************************************************)
EXTENDS Integers, Sequences, FiniteSets, TLC

VARIABLES
    \* ---- Spec: the pipeline executor (workflow.py) ----
    pc,         \* "idle" | "running" | "done" | "raised"
    state,      \* the channels of MindMoneyState (keys that hold a value)
    tasks,      \* nodes scheduled in the current superstep
    pending,    \* node -> the partial update it returned in this superstep
    err,        \* "none" | "StageError" | "InvalidUpdateError"
    runs,       \* node -> number of times the node function has been invoked
    sawIntake,  \* node -> whether Intake's write was in the state the node read
    step,       \* number of the current superstep
    applied,    \* nodes whose writes have been merged into the channels
    \* ---- SpecStages: one stage function applied to one record ----
    hin,        \* the record the stage reads
    hstage,     \* "none" or the stage that was applied
    henv,       \* the outcomes of the external collaborators the stage met
    hout,       \* what the stage returned: [raised, update, calls]
    \* ---- SpecApi: one request handled by main.py ----
    apc,        \* the statement the handler is at
    areq,       \* the request: [endpoint, include_state]
    asig,       \* parameter names of the run_mindmoney_workflow that is called
    aresult,    \* the final state the awaited workflow returns
    astages,    \* stages of the awaited workflow that have finished
    aresp,      \* the HTTP response of the chat endpoint
    aevents,    \* the server-sent events yielded by the streaming endpoint
    alog,       \* the log_conversation_turn task: none, scheduled, ok, failed, raised
    afailed,    \* the awaited calls of this request that raised
    anum,       \* the number of requests of the session received so far
    akeys,      \* the session in the store: [state, history], each the
                \* numbers of the requests whose write it holds (0: earlier)
    adel,       \* delete_session: none, state_deleted, done, failed
    adelat,     \* the value of anum when delete_session completed
    arecorded,  \* the turn_number passed to log_conversation_turn, per turn
    \* ---- SpecStore: the history key of one session ----
    skey,       \* the value stored under the history key (None when absent)
    scall,      \* request -> its append_to_history call: [pc, turn, history]
    sappended,  \* the turns of the calls that returned True, in order of return
    snext,      \* the number of the next turn
    soverlap    \* whether a call started while another call was in progress

pvars == <<pc, state, tasks, pending, err, runs, sawIntake, step, applied>>
hvars == <<hin, hstage, henv, hout>>
avars == <<apc, areq, asig, aresult, astages, aresp, aevents, alog, afailed,
          anum, akeys, adel, adelat, arecorded>>
svars == <<skey, scall, sappended, snext, soverlap>>
vars == <<pvars, hvars, avars, svars>>

-----------------------------------------------------------------------------
(* Bounds of the model *)

MaxMissing == 2
MaxDebtTypes == 1
MaxTextLen == 2

(* Turns appended to the history of the session in one run *)
MaxAppends == 3

(* Requests of one session handled one after the other *)
MaxRequests == 2

(* Program constants *)

MaxScore == 10
StressedThreshold == 7
ModerateThreshold == 4
StressedBullets == 3
LogMissingShown == 2

(* Keep only last 20 turns *)
HistoryCap == 20

-----------------------------------------------------------------------------
(* Python values *)

EmptyDict == [k \in {} |-> TRUE]

None == [py_none |-> TRUE]

Get(d, k, default) == IF k \in DOMAIN d THEN d[k] ELSE default

Truthy(d) == d # None /\ DOMAIN d # {}

OrEmpty(d) == IF Truthy(d) THEN d ELSE EmptyDict

Take(s, n) == IF Len(s) <= n THEN s ELSE SubSeq(s, 1, n)

SeqsUpTo(S, n) == UNION {[1..k -> S] : k \in 0..n}

(* str.strip(): leading and trailing whitespace tokens removed *)
RECURSIVE LStrip(_)
LStrip(s) == IF s # <<>> /\ Head(s) = " " THEN LStrip(Tail(s)) ELSE s

RECURSIVE RStrip(_)
RStrip(s) ==
    IF s # <<>> /\ s[Len(s)] = " " THEN RStrip(SubSeq(s, 1, Len(s) - 1)) ELSE s

Strip(s) == RStrip(LStrip(s))

-----------------------------------------------------------------------------
(* What the external collaborators can hand to a stage *)

Intents == {"GREETING", "CLARIFICATION", "DATA_SUBMISSION", "OTHER"}

AnxietyVals == 0..MaxScore

ShameVals == {2, 8}

MissingItems == {"monthly income"}

DebtKinds == {"Credit Card", "Student Loan"}

(* A JSON object in which key k holds a value that is no number (a string, or
   null): the key is present, py_non_numeric names it, and the number stored
   under it is never read. *)
NonNumeric(k) == [x \in {k, "py_non_numeric"} |->
                     IF x = k THEN 0 ELSE {k}]

IsNumber(d, k) == k \notin Get(d, "py_non_numeric", {})

(* JSON objects the text-generation capability can return to Intake *)
IntakeData ==
    LET emo == {[anxiety |-> a, shame |-> s, primary_emotion |-> "worried"] :
                    a \in AnxietyVals, s \in ShameVals}
                \cup {[shame |-> 2]}
        full == {[intent |-> i, emotional_state |-> e,
                  safety_concerns |-> [crisis_flag |-> c],
                  missing_info |-> m] :
                    i \in Intents, e \in emo, c \in BOOLEAN,
                    m \in SeqsUpTo(MissingItems, MaxMissing)}
        partial == {[intent |-> i] : i \in Intents}
                   \cup {[emotional_state |-> e] : e \in emo}
        untyped == {[intent |-> i, emotional_state |-> NonNumeric("anxiety")] :
                        i \in Intents}
                   \cup {[intent |-> "DATA_SUBMISSION", emotional_state |-> None],
                         [intent |-> "DATA_SUBMISSION", safety_concerns |-> None]}
    IN  full \cup partial \cup untyped \cup {EmptyDict}

DebtEntries == {[type |-> t, amount |-> 5000] : t \in DebtKinds}

(* JSON objects the capability can return to FinancialAnalysis *)
FinancialData ==
    {[financial_health_score |-> 60,
      debt_analysis |-> [total_debt |-> "5000", debt_types |-> d],
      major_challenges |-> <<"high interest">>,
      detailed_strategy |-> [phase_1_immediate |-> [focus |-> "budget"]]] :
        d \in SeqsUpTo(DebtEntries, MaxDebtTypes)}
    \cup {[major_challenges |-> <<"high interest">>], EmptyDict}

(* JSON objects the capability can return to ActionPlan *)
ActionData ==
    {[immediate_actions |-> <<[action |-> "call the bank", category |-> "debt"]>>,
      quick_wins |-> <<"cancel a subscription">>],
     [quick_wins |-> <<"cancel a subscription">>],
     EmptyDict}

TextTokens == {" ", "words"}

(* response.text of a free-text reply *)
Texts == SeqsUpTo(TextTokens, MaxTextLen)

(* A reply of generate_content: it raises, or response.text is None, is plain
   text, is a JSON document that is no object, or is a JSON object. *)
StructuredReplies(data) ==
    {[kind |-> "raise"], [kind |-> "none"], [kind |-> "scalar"]}
    \cup {[kind |-> "text", text |-> t] : t \in Texts \ {<<>>}}
    \cup {[kind |-> "json", data |-> d] : d \in data}

TextReplies ==
    {[kind |-> "raise"], [kind |-> "none"]}
    \cup {[kind |-> "text", text |-> t] : t \in Texts}

ClientOutcomes == {"ok", "raise"}

-----------------------------------------------------------------------------
(* agents.py: shared utilities *)

(* get_settings() and get_gemini_client(): the client is built, or building
   it (or reading its settings) raises. *)
get_gemini_client(env) == env.client = "ok"

(* safe_parse_json(response.text): {} for None or "", {} for text json.loads
   rejects, otherwise whatever json.loads returns. *)
safe_parse_json(reply) ==
    CASE reply.kind = "none" -> EmptyDict
      [] reply.kind = "text" -> EmptyDict
      [] reply.kind = "json" -> reply.data
      [] reply.kind = "scalar" -> <<"a JSON document that is no object">>

(* The reply makes the try block raise: generate_content raised, or the parsed
   document is no object and data.get(...) raises AttributeError. *)
RaisesInTry(reply) == reply.kind \in {"raise", "scalar"}

Log(agent, status, thought, output_state) ==
    [agent |-> agent, status |-> status, thought |-> thought,
     output_state |-> output_state]

Raised(calls) == [raised |-> TRUE, update |-> EmptyDict, calls |-> calls]

(* A return that leaves the trace entry out of the partial update *)
Returned_NoTrace(update, calls) ==
    [raised |-> FALSE,
     update |-> [k \in DOMAIN update \ {"agent_log"} |-> update[k]],
     calls |-> calls]

Returned(update, calls) == [raised |-> FALSE, update |-> update, calls |-> calls]

Intent(intake) == Get(intake, "intent", "GREETING")

-----------------------------------------------------------------------------
(* AGENT 1: run_intake_agent *)

IntakeFallback == [intent |-> "GREETING", error |-> "str(e)"]

(* emotions.get(...) or safety.get(...) on a null sub-record: AttributeError *)
NullSubRecord(data) ==
    \/ Get(data, "emotional_state", EmptyDict) = None
    \/ Get(data, "safety_concerns", EmptyDict) = None

IntakeRaisesInTry(reply) ==
    IF RaisesInTry(reply) THEN TRUE ELSE NullSubRecord(safe_parse_json(reply))

run_intake_agent(st, env) ==
    IF ~get_gemini_client(env) THEN Raised(0)
    ELSE IF IntakeRaisesInTry(env.reply) THEN
        Returned([intake_profile |-> IntakeFallback,
                  agent_log |-> <<Log("Intake Specialist", "failed",
                                      "Error during analysis",
                                      [error |-> "str(e)"])>>], 1)
    ELSE
        LET data == safe_parse_json(env.reply)
            intent == Get(data, "intent", "GREETING")
            emotions == Get(data, "emotional_state", EmptyDict)
            safety == Get(data, "safety_concerns", EmptyDict)
            missing_info == Get(data, "missing_info", <<>>)
            output_state ==
                [intent |-> intent,
                 anxiety_score |-> Get(emotions, "anxiety", 0),
                 shame_score |-> Get(emotions, "shame", 0),
                 crisis_flag |-> Get(safety, "crisis_flag", FALSE),
                 missing_info |-> Take(missing_info, LogMissingShown)]
        IN  Returned([intake_profile |-> data,
                      agent_log |-> <<Log("Intake Specialist", "complete",
                                          "Classified", output_state)>>], 1)

-----------------------------------------------------------------------------
(* AGENT 2: run_financial_agent *)

FinancialError == [error |-> "str(e)"]

(* FinancialGate that only holds back a greeting *)
FinancialGate_NotGreeting(intent) == intent # "GREETING"

FinancialGate(intent) == intent = "DATA_SUBMISSION"

run_financial_agent(st, env) ==
    LET intake == Get(st, "intake_profile", EmptyDict)
        intent == Intent(intake)
    IN  IF ~FinancialGate(intent) THEN
            Returned([financial_profile |-> EmptyDict,
                      agent_log |-> <<Log("Wealth Architect", "idle",
                          "Skipped - Intent is not DATA_SUBMISSION",
                          [skipped |-> TRUE,
                           reason |-> "No financial data provided"])>>], 0)
        ELSE IF ~get_gemini_client(env) THEN Raised(0)
        ELSE IF RaisesInTry(env.reply) THEN
            Returned([financial_profile |-> FinancialError,
                      agent_log |-> <<Log("Wealth Architect", "failed",
                                          "Error during analysis",
                                          [error |-> "str(e)"])>>], 1)
        ELSE
            LET data == safe_parse_json(env.reply)
                debt == Get(data, "debt_analysis", EmptyDict)
                output_state ==
                    [health_score |-> Get(data, "financial_health_score", 0),
                     debt_types_count |-> Len(Get(debt, "debt_types", <<>>)),
                     challenges_identified |->
                         Len(Get(data, "major_challenges", <<>>))]
            IN  Returned([financial_profile |-> data,
                          agent_log |-> <<Log("Wealth Architect", "complete",
                                              "Health Score", output_state)>>], 1)

-----------------------------------------------------------------------------
(* AGENT 3: run_synthesizer_agent *)

CARE_PROMPT_GREETING == [name |-> "GREETING", role |-> "financial wellness coach"]

CARE_PROMPT_CLARIFICATION ==
    [name |-> "CLARIFICATION", role |-> "financial wellness coach"]

CARE_PROMPT_STRESSED ==
    [name |-> "STRESSED", role |-> "crisis de-escalation specialist",
     bullet_points |-> StressedBullets]

CARE_PROMPT_MODERATE ==
    [name |-> "MODERATE", role |-> "supportive financial coach"]

CARE_PROMPT_CALM == [name |-> "CALM", role |-> "strategic wealth coach"]

DefaultText == <<"I'm here to help. Could you tell me more?">>

SynthFallbackText == <<"I'm here to help with your finances.">>

StyleGreeting ==
    [style |-> "greeting", prompt |-> CARE_PROMPT_GREETING,
     style_reason |-> "User sent a greeting/inquiry"]

StyleClarification ==
    [style |-> "clarification", prompt |-> CARE_PROMPT_CLARIFICATION,
     style_reason |-> "User needs to provide"]

StyleStressed ==
    [style |-> "crisis_support", prompt |-> CARE_PROMPT_STRESSED,
     style_reason |-> "High anxiety - using calming approach"]

StyleModerate ==
    [style |-> "supportive_guidance", prompt |-> CARE_PROMPT_MODERATE,
     style_reason |-> "Moderate anxiety - balanced approach"]

StyleCalm ==
    [style |-> "strategic_optimization", prompt |-> CARE_PROMPT_CALM,
     style_reason |-> "Low anxiety - optimization focus"]

(* SelectStyle with the two anxiety tests in the other order *)
SelectStyle_ModerateFirst(intent, anxiety) ==
    IF intent = "GREETING" THEN StyleGreeting
    ELSE IF intent = "CLARIFICATION" THEN StyleClarification
    ELSE IF anxiety >= ModerateThreshold THEN StyleModerate
    ELSE IF anxiety >= StressedThreshold THEN StyleStressed
    ELSE StyleCalm

(* SelectStyle with a strict comparison at the moderate threshold *)
SelectStyle_StrictModerate(intent, anxiety) ==
    IF intent = "GREETING" THEN StyleGreeting
    ELSE IF intent = "CLARIFICATION" THEN StyleClarification
    ELSE IF anxiety >= StressedThreshold THEN StyleStressed
    ELSE IF anxiety > ModerateThreshold THEN StyleModerate
    ELSE StyleCalm

(* The if / elif chain that determines style and prompt: intent first, then
   the anxiety score against the two thresholds *)
SelectStyle(intent, anxiety) ==
    IF intent = "GREETING" THEN StyleGreeting
    ELSE IF intent = "CLARIFICATION" THEN StyleClarification
    ELSE IF anxiety >= StressedThreshold THEN StyleStressed
    ELSE IF anxiety >= ModerateThreshold THEN StyleModerate
    ELSE StyleCalm

run_synthesizer_agent(st, env) ==
    IF ~get_gemini_client(env) THEN Raised(0)
    ELSE
        LET intake == OrEmpty(Get(st, "intake_profile", None))
            wealth == OrEmpty(Get(st, "financial_profile", None))
            intent == Intent(intake)
            emotions == Get(intake, "emotional_state", EmptyDict)
            anxiety == Get(emotions, "anxiety", 0)
            sel == SelectStyle(intent, anxiety)
            request ==
                IF intent \in {"GREETING", "CLARIFICATION"}
                THEN [prompt |-> sel.prompt]
                ELSE [prompt |-> sel.prompt, financial_analysis |-> wealth]
        IN  IF /\ intent \notin {"GREETING", "CLARIFICATION"}
               /\ ~IsNumber(emotions, "anxiety")
            THEN Raised(0)
            ELSE IF env.reply.kind = "raise" THEN
                [raised |-> FALSE, calls |-> 1, request |-> request,
                 update |->
                    [final_response |-> SynthFallbackText,
                     agent_log |-> <<Log("Care Manager", "failed", "Error",
                                         [error |-> "str(e)"])>>]]
            ELSE
                LET text == IF env.reply.kind = "none" THEN <<>>
                            ELSE env.reply.text
                    final_text == IF text # <<>> THEN Strip(text)
                                  ELSE DefaultText
                    output_state ==
                        [response_style |-> sel.style,
                         style_reason |-> sel.style_reason,
                         response_length |-> Len(final_text),
                         used_financial_data |->
                             (Truthy(wealth) /\ intent = "DATA_SUBMISSION")]
                IN  [raised |-> FALSE, calls |-> 1, request |-> request,
                     update |->
                        [final_response |-> final_text,
                         agent_log |-> <<Log("Care Manager", "complete",
                                             "Style", output_state)>>]]

-----------------------------------------------------------------------------
(* AGENT 4: run_action_generator *)

(* run_action_generator with a second attempt after a failed call *)
run_action_generator_Retry(st, env) ==
    LET intake == Get(st, "intake_profile", EmptyDict)
        intent == Intent(intake)
    IN  IF intent # "DATA_SUBMISSION" THEN
            Returned([action_plan |-> None,
                      agent_log |-> <<Log("Action Generator", "idle",
                          "Skipped - no action plan needed",
                          [skipped |-> TRUE,
                           reason |-> "Non-financial conversation"])>>], 0)
        ELSE IF ~get_gemini_client(env) THEN Raised(0)
        ELSE IF RaisesInTry(env.reply) THEN
            Returned([action_plan |-> None,
                      agent_log |-> <<Log("Action Generator", "failed", "Error",
                                          [error |-> "str(e)"])>>], 2)
        ELSE
            LET data == safe_parse_json(env.reply)
                output_state ==
                    [immediate_actions |->
                         Len(Get(data, "immediate_actions", <<>>)),
                     quick_wins |-> Len(Get(data, "quick_wins", <<>>))]
            IN  Returned([action_plan |-> data,
                          agent_log |-> <<Log("Action Generator", "complete",
                                              "Generated actions",
                                              output_state)>>], 1)

run_action_generator(st, env) ==
    LET intake == Get(st, "intake_profile", EmptyDict)
        intent == Intent(intake)
    IN  IF intent # "DATA_SUBMISSION" THEN
            Returned([action_plan |-> None,
                      agent_log |-> <<Log("Action Generator", "idle",
                          "Skipped - no action plan needed",
                          [skipped |-> TRUE,
                           reason |-> "Non-financial conversation"])>>], 0)
        ELSE IF ~get_gemini_client(env) THEN Raised(0)
        ELSE IF RaisesInTry(env.reply) THEN
            Returned([action_plan |-> None,
                      agent_log |-> <<Log("Action Generator", "failed", "Error",
                                          [error |-> "str(e)"])>>], 1)
        ELSE
            LET data == safe_parse_json(env.reply)
                output_state ==
                    [immediate_actions |->
                         Len(Get(data, "immediate_actions", <<>>)),
                     quick_wins |-> Len(Get(data, "quick_wins", <<>>))]
            IN  Returned([action_plan |-> data,
                          agent_log |-> <<Log("Action Generator", "complete",
                                              "Generated actions",
                                              output_state)>>], 1)

-----------------------------------------------------------------------------
(* AGENT 5: run_research_agent *)

GenericQuery == <<"personal finance tips debt payoff strategies">>

(* perform_market_search(query): the results depend on the query *)
perform_market_search(query, env) ==
    IF env.search = "empty" THEN <<>> ELSE <<"results for">> \o query

(* except ImportError, taken as an attempted and failed search *)
ResearchUnavailable_AsFailure ==
    Returned([market_data |-> <<>>,
              agent_log |-> <<Log("Market Researcher", "failed",
                                  "Error", [error |-> "str(e)"])>>], 0)

(* except ImportError: the search tools cannot be imported *)
ResearchUnavailable ==
    Returned([market_data |-> <<>>,
              agent_log |-> <<Log("Market Researcher", "idle",
                  "Search tools not configured",
                  [skipped |-> TRUE,
                   reason |-> "Tavily not configured"])>>], 0)

run_research_agent(st, env) ==
    LET intake == Get(st, "intake_profile", EmptyDict)
        intent == Intent(intake)
    IN  IF intent # "DATA_SUBMISSION" THEN
            Returned([market_data |-> <<>>,
                      agent_log |-> <<Log("Market Researcher", "idle",
                          "Skipped - market research only for financial submissions",
                          [skipped |-> TRUE])>>], 0)
        ELSE IF env.tools = "missing" THEN ResearchUnavailable
        ELSE
            LET wealth == Get(st, "financial_profile", EmptyDict)
                debt_types == Get(Get(wealth, "debt_analysis", EmptyDict),
                                  "debt_types", <<>>)
                query == IF debt_types # <<>>
                         THEN <<"best strategies to pay off",
                                Get(debt_types[1], "type", "debt"), "2024">>
                         ELSE GenericQuery
            IN  IF env.search = "raise" THEN
                    Returned([market_data |-> <<>>,
                              agent_log |-> <<Log("Market Researcher", "failed",
                                  "Error", [error |-> "str(e)"])>>], 1)
                ELSE
                    LET search_results == perform_market_search(query, env)
                    IN  Returned([market_data |-> search_results,
                                  agent_log |-> <<Log("Market Researcher",
                                      "complete", "Searched",
                                      [search_query |-> query,
                                       results_found |-> search_results # <<>>])>>],
                                 1)

-----------------------------------------------------------------------------
(* What each stage can meet outside the Turn Record *)

ClientEnvs(replies) ==
    {[client |-> "raise"]} \cup {[client |-> "ok", reply |-> r] : r \in replies}

IntakeEnvs == ClientEnvs(StructuredReplies(IntakeData))

FinancialEnvs == ClientEnvs(StructuredReplies(FinancialData))

SynthEnvs == ClientEnvs(TextReplies)

ActionEnvs == ClientEnvs(StructuredReplies(ActionData))

ResearchEnvs ==
    {[tools |-> "missing"]}
    \cup {[tools |-> "ok", search |-> s] : s \in {"results", "empty", "raise"}}

-----------------------------------------------------------------------------
(* schemas.py: MindMoneyState, and workflow.py: the compiled graph *)

(* The keys of MindMoneyState: each is a channel of the graph *)
SchemaKeys ==
    {"session_id", "turn_number", "user_input", "conversation_history",
     "intake_profile", "financial_profile", "plan_draft", "strategy_decision",
     "final_response", "agent_log", "errors"}

(* No key of MindMoneyState is Annotated with a reducer: every channel keeps
   the last value and accepts one write per superstep. *)
ChannelKind(k) == "LastValue"

Nodes == {"intake_specialist", "wealth_architect", "care_manager"}

Edges ==
    {<<"START", "intake_specialist">>, <<"START", "wealth_architect">>,
     <<"intake_specialist", "care_manager">>,
     <<"wealth_architect", "care_manager">>,
     <<"care_manager", "END">>}

Successors(ns) == {m \in Nodes : \E n \in ns : <<n, m>> \in Edges}

NodeEnvs(n) ==
    CASE n = "intake_specialist" -> IntakeEnvs
      [] n = "wealth_architect" -> FinancialEnvs
      [] n = "care_manager" -> SynthEnvs

NodeFn(n, st, env) ==
    CASE n = "intake_specialist" -> run_intake_agent(st, env)
      [] n = "wealth_architect" -> run_financial_agent(st, env)
      [] n = "care_manager" -> run_synthesizer_agent(st, env)

initial_state(user_input, history) ==
    [user_input |-> user_input, conversation_history |-> history,
     intake_profile |-> EmptyDict, financial_profile |-> EmptyDict,
     plan_draft |-> EmptyDict, strategy_decision |-> EmptyDict,
     final_response |-> <<>>, agent_log |-> <<>>]

Histories == {<<>>, <<[user |-> "hi", assistant |-> "hello"]>>}

(* The nodes of the superstep that wrote key k (keys outside the schema are
   not channels and their writes are dropped) *)
Writers(k) == {n \in DOMAIN pending : k \in DOMAIN pending[n] /\ k \in SchemaKeys}

WrittenKeys == {k \in SchemaKeys : Writers(k) # {}}

(* A LastValue channel that receives two values in one superstep *)
Conflict == \E k \in WrittenKeys :
                ChannelKind(k) = "LastValue" /\ Cardinality(Writers(k)) > 1

Merged ==
    [k \in DOMAIN state \cup WrittenKeys |->
        IF k \in WrittenKeys
        THEN pending[CHOOSE n \in Writers(k) : TRUE][k]
        ELSE state[k]]

PInit ==
    /\ pc = "idle"
    /\ state = EmptyDict
    /\ tasks = {}
    /\ pending = EmptyDict
    /\ err = "none"
    /\ runs = [n \in Nodes |-> 0]
    /\ sawIntake = [n \in Nodes |-> FALSE]
    /\ step = 0
    /\ applied = {}

(* run_mindmoney_workflow: the initial state is written to the channels and
   the nodes START points to are scheduled *)
Start ==
    /\ pc = "idle"
    /\ \E h \in Histories : state' = initial_state(<<"words">>, h)
    /\ pc' = "running"
    /\ tasks' = Successors({"START"})
    /\ step' = 1
    /\ UNCHANGED <<pending, err, runs, sawIntake, applied, hvars, avars, svars>>

(* One node of the superstep runs on the state as it was when the superstep
   began.  A stage makes its capability call synchronously, so it runs from
   start to return without yielding. *)
RunTask(n) ==
    /\ pc = "running"
    /\ n \in tasks \ DOMAIN pending
    /\ \E env \in NodeEnvs(n) :
        LET res == NodeFn(n, state, env)
        IN  /\ runs' = [runs EXCEPT ![n] = @ + 1]
            /\ sawIntake' = [sawIntake EXCEPT ![n] = "intake_specialist" \in applied]
            /\ IF res.raised
               THEN /\ pc' = "raised"
                    /\ err' = "StageError"
                    /\ UNCHANGED pending
               ELSE /\ pending' = (n :> res.update) @@ pending
                    /\ UNCHANGED <<pc, err>>
    /\ UNCHANGED <<state, tasks, step, applied, hvars, avars, svars>>

(* The end of a superstep: the writes of its nodes go to the channels.  As the
   graph is wired, both nodes of superstep one return agent_log, so the merge
   of superstep one always finds a conflict: the ELSE branch, and with it
   care_manager, is not reached in any turn. *)
ApplyWrites ==
    /\ pc = "running"
    /\ DOMAIN pending = tasks
    /\ IF Conflict
       THEN /\ pc' = "raised"
            /\ err' = "InvalidUpdateError"
            /\ UNCHANGED <<state, tasks, pending, step, applied>>
       ELSE /\ state' = Merged
            /\ applied' = applied \cup tasks
            /\ tasks' = Successors(tasks)
            /\ pending' = EmptyDict
            /\ step' = step + 1
            /\ pc' = IF Successors(tasks) = {} THEN "done" ELSE "running"
            /\ UNCHANGED err
    /\ UNCHANGED <<runs, sawIntake, hvars, avars, svars>>

-----------------------------------------------------------------------------
(* The stage functions applied one at a time *)

FreshRecord == [intake_profile |-> EmptyDict, financial_profile |-> EmptyDict]

(* What Intake can leave in intake_profile, and FinancialAnalysis in
   financial_profile *)
IntakeProfiles ==
    {run_intake_agent(FreshRecord, env).update.intake_profile :
        env \in {e \in IntakeEnvs : e.client = "ok"}}

FinancialProfiles == FinancialData \cup {FinancialError}

(* FinancialAnalysis leaves {} unless the intent it read was DATA_SUBMISSION *)
StageInputs ==
    {r \in {[intake_profile |-> ip, financial_profile |-> fp] :
                ip \in IntakeProfiles, fp \in FinancialProfiles} :
        r.financial_profile = EmptyDict
        \/ Intent(r.intake_profile) = "DATA_SUBMISSION"}

NoResult == [raised |-> FALSE, update |-> EmptyDict, calls |-> 0]

HInit ==
    /\ hin = FreshRecord
    /\ hstage = "none"
    /\ henv = EmptyDict
    /\ hout = NoResult

(* Intake is the first stage of a turn: it is applied to the fresh record *)
ApplyIntake ==
    /\ hstage = "none"
    /\ hin = FreshRecord
    /\ \E env \in IntakeEnvs :
          /\ henv' = env
          /\ hout' = run_intake_agent(hin, env)
    /\ hstage' = "intake"
    /\ UNCHANGED <<hin, pvars, avars, svars>>

ApplyFinancial ==
    /\ hstage = "none"
    /\ \E env \in FinancialEnvs :
          /\ henv' = env
          /\ hout' = run_financial_agent(hin, env)
    /\ hstage' = "financial"
    /\ UNCHANGED <<hin, pvars, avars, svars>>

ApplyResearch ==
    /\ hstage = "none"
    /\ \E env \in ResearchEnvs :
          /\ henv' = env
          /\ hout' = run_research_agent(hin, env)
    /\ hstage' = "research"
    /\ UNCHANGED <<hin, pvars, avars, svars>>

ApplySynthesizer ==
    /\ hstage = "none"
    /\ \E env \in SynthEnvs :
          /\ henv' = env
          /\ hout' = run_synthesizer_agent(hin, env)
    /\ hstage' = "synthesizer"
    /\ UNCHANGED <<hin, pvars, avars, svars>>

ApplyActionGenerator ==
    /\ hstage = "none"
    /\ \E env \in ActionEnvs :
          /\ henv' = env
          /\ hout' = run_action_generator(hin, env)
    /\ hstage' = "action"
    /\ UNCHANGED <<hin, pvars, avars, svars>>

-----------------------------------------------------------------------------
(* statemanager.py: the conversation history of one session *)

(* An awaited call of the store returns or raises *)
StoreOutcomes == {"ok", "raise"}

Requests == {"r1", "r2"}

(* One turn of the history; n stands for its texts and its timestamp *)
Turn(n) == [user |-> n, assistant |-> n]

json_dumps(value) == [json |-> value]

json_loads(data) == data.json

(* history[-n:] *)
LastN(history, n) ==
    IF Len(history) > n
    THEN SubSeq(history, Len(history) - n + 1, Len(history))
    ELSE history

(* get_conversation_history, given what client.get returned *)
get_conversation_history(data) ==
    IF data # None THEN json_loads(data) ELSE <<>>

(* The cut keeping the first turns instead of the last ones *)
Capped_KeepOldest(history) ==
    IF Len(history) > HistoryCap THEN SubSeq(history, 1, HistoryCap) ELSE history

(* The history after history.append(...) and the cut to the last turns *)
Capped(history) ==
    IF Len(history) > HistoryCap THEN LastN(history, HistoryCap) ELSE history

NotCalling == [pc |-> "idle"]

(* The turns numbered 1 - k .. 0: a history of k earlier turns *)
EarlierTurns(k) == [i \in 1..k |-> Turn(i - k)]

SInit ==
    /\ skey = None
    /\ scall = [r \in Requests |-> NotCalling]
    /\ sappended = <<>>
    /\ snext = 1
    /\ soverlap = FALSE

(* A request calls append_to_history with the turn it has just computed *)
CallAppend(r) ==
    /\ scall[r].pc = "idle"
    /\ snext <= MaxAppends
    /\ scall' = [scall EXCEPT ![r] = [pc |-> "get", turn |-> Turn(snext)]]
    /\ snext' = snext + 1
    /\ soverlap' = (soverlap \/ \E q \in Requests : scall[q].pc # "idle")
    /\ UNCHANGED <<skey, sappended>>
    /\ UNCHANGED <<pvars, hvars, avars>>

(* history = await self.get_conversation_history(session_id), then the
   append and the cut *)
ReadHistory(r) ==
    /\ scall[r].pc = "get"
    /\ \E o \in StoreOutcomes :
          scall' = [scall EXCEPT ![r] =
                      IF o = "raise" THEN NotCalling
                      ELSE [pc |-> "setex", turn |-> scall[r].turn,
                            history |-> Capped(Append(
                                get_conversation_history(skey),
                                scall[r].turn))]]
    /\ UNCHANGED <<skey, sappended, snext, soverlap>>
    /\ UNCHANGED <<pvars, hvars, avars>>

(* await client.setex(key, ttl, json.dumps(history)); return True *)
WriteHistory(r) ==
    /\ scall[r].pc = "setex"
    /\ \E o \in StoreOutcomes :
          IF o = "raise"
          THEN UNCHANGED <<skey, sappended>>
          ELSE /\ skey' = json_dumps(scall[r].history)
               /\ sappended' = Append(sappended, scall[r].turn)
    /\ scall' = [scall EXCEPT ![r] = NotCalling]
    /\ UNCHANGED <<snext, soverlap>>
    /\ UNCHANGED <<pvars, hvars, avars>>

-----------------------------------------------------------------------------
(* main.py: the chat endpoint and the streaming endpoint *)

Endpoints == {"chat", "stream"}

(* async def run_mindmoney_workflow(user_input: str, history: list) *)
WorkflowParams == {"user_input", "history"}

(* The keywords of the call run_mindmoney_workflow(session_id=...,
   user_input=..., conversation_history=..., existing_state=...) *)
CallKeywords ==
    {"session_id", "user_input", "conversation_history", "existing_state"}

(* Python binds a call to a function without defaults, *args or **kwargs when
   the keywords are exactly the parameters; otherwise the call raises
   TypeError. *)
Binds(params, keywords) == keywords = params

(* str(e) of an exception *)
ErrorText == "str(e)"

(* raise HTTPException(status_code=500, detail=f"Workflow error: {str(e)}") *)
HttpError ==
    [kind |-> "http_error", status_code |-> 500,
     detail |-> <<"Workflow error:", ErrorText>>]

NoResponse == [kind |-> "none"]

StartedEvent == [event |-> "state_update", data |-> [status |-> "started"]]

AgentLogEvent(log_entry) == [event |-> "agent_log", data |-> log_entry]

StateUpdateEvent(result) ==
    [event |-> "state_update",
     data |-> [intake_profile |-> Get(result, "intake_profile", EmptyDict),
               financial_profile |-> Get(result, "financial_profile", EmptyDict),
               strategy_decision |-> Get(result, "strategy_decision", EmptyDict)]]

FinalResponseEvent(result) ==
    [event |-> "final_response",
     data |-> [response |-> Get(result, "final_response", <<>>),
               turn_number |-> Get(result, "turn_number", 1)]]

ErrorEvent == [event |-> "error", data |-> [error |-> ErrorText]]

(* The fields of AgentLogEntry that have no default *)
AgentLogEntryRequired == {"agent_name", "input_summary", "output_summary"}

(* ChatResponse(session_id, response, state, agent_log): pydantic validates
   every element of agent_log as an AgentLogEntry and raises ValidationError
   when a required field is missing. *)
ChatResponse(result, include_state) ==
    LET agent_log == Get(result, "agent_log", <<>>)
    IN  IF \E i \in 1..Len(agent_log) :
               ~(AgentLogEntryRequired \subseteq DOMAIN agent_log[i])
        THEN [raised |-> TRUE]
        ELSE [raised |-> FALSE,
              value |-> [kind |-> "reply",
                         response |-> Get(result, "final_response", <<>>),
                         state |-> IF include_state THEN result ELSE None,
                         agent_log |-> agent_log]]

(* log_conversation_turn without its try / except *)
log_conversation_turn_NoCatch(store) ==
    [raised |-> store = "raise", value |-> [turn_id |-> "id"]]

(* SupabaseLogger.log_conversation_turn: the whole body is in one try whose
   except Exception prints and returns None *)
log_conversation_turn(store) ==
    [raised |-> FALSE,
     value |-> IF store = "raise" THEN None ELSE [turn_id |-> "id"]]

(* A final state as the stages build it: Intake's and ResponseSynthesis's
   updates on a fresh record *)
TurnRecord(envI, envS) ==
    LET i == run_intake_agent(FreshRecord, envI).update
        c == run_synthesizer_agent(
                 [FreshRecord EXCEPT !.intake_profile = i.intake_profile],
                 envS).update
    IN  [intake_profile |-> i.intake_profile,
         financial_profile |-> EmptyDict,
         final_response |-> c.final_response,
         agent_log |-> i.agent_log \o c.agent_log]

(* Final states an awaited workflow can return to the endpoint *)
WorkflowResults ==
    {TurnRecord(envI, envS) :
        envI \in {[client |-> "ok", reply |-> [kind |-> "raise"]],
                  [client |-> "ok",
                   reply |-> [kind |-> "json", data |-> [intent |-> "GREETING"]]]},
        envS \in {[client |-> "ok", reply |-> [kind |-> "raise"]],
                  [client |-> "ok",
                   reply |-> [kind |-> "text", text |-> <<"words">>]]}}
    \cup {[final_response |-> <<"words">>, agent_log |-> <<>>]}

NumAgentLogEvents ==
    Cardinality({i \in 1..Len(aevents) : aevents[i].event = "agent_log"})

(* except Exception as e: the chat endpoint raises HTTPException, the
   event generator yields an error event *)
ResponseOnError == IF areq.endpoint = "chat" THEN HttpError ELSE aresp

EventsOnError ==
    IF areq.endpoint = "stream" THEN Append(aevents, ErrorEvent) ELSE aevents

(* Neither key of the session exists *)
NoSession == [state |-> <<>>, history |-> <<>>]

(* The keys as a turn before the first request of the model left them *)
EarlierSession == [state |-> <<0>>, history |-> <<0>>]

AInit ==
    /\ apc = "idle"
    /\ areq = [endpoint |-> "none", include_state |-> TRUE]
    /\ asig = WorkflowParams
    /\ aresult = EmptyDict
    /\ astages = 0
    /\ aresp = NoResponse
    /\ aevents = <<>>
    /\ alog = "none"
    /\ afailed = {}
    /\ anum = 0
    /\ akeys = NoSession
    /\ adel = "none"
    /\ adelat = 0
    /\ arecorded = <<>>

(* POST /api/chat or POST /api/chat/stream; an earlier request of the session
   has ended *)
ReceiveRequest ==
    /\ apc \in {"idle", "done"}
    /\ anum < MaxRequests
    /\ anum' = anum + 1
    /\ \E ep \in Endpoints, inc \in BOOLEAN :
          areq' = [endpoint |-> ep, include_state |-> inc]
    /\ apc' = "get_state"
    /\ aresult' = EmptyDict
    /\ astages' = 0
    /\ aresp' = NoResponse
    /\ aevents' = <<>>
    /\ alog' = "none"
    /\ afailed' = {}
    /\ UNCHANGED <<asig, akeys, adel, adelat, arecorded>>
    /\ UNCHANGED <<pvars, hvars, svars>>

(* existing_state = await state_manager.get_state(request.session_id) *)
GetState ==
    /\ apc = "get_state"
    /\ \E o \in StoreOutcomes :
          IF o = "raise"
          THEN /\ apc' = "done"
               /\ aresp' = ResponseOnError
               /\ aevents' = EventsOnError
               /\ afailed' = afailed \cup {"get_state"}
          ELSE /\ apc' = "get_conversation_history"
               /\ UNCHANGED <<aresp, aevents, afailed>>
    /\ UNCHANGED <<areq, asig, aresult, astages, alog>>
    /\ UNCHANGED <<anum, akeys, adel, adelat, arecorded>>
    /\ UNCHANGED <<pvars, hvars, svars>>

(* conversation_history = await state_manager.get_conversation_history(...);
   the event generator then yields the "started" event *)
GetConversationHistory ==
    /\ apc = "get_conversation_history"
    /\ \E o \in StoreOutcomes :
          IF o = "raise"
          THEN /\ apc' = "done"
               /\ aresp' = ResponseOnError
               /\ aevents' = EventsOnError
               /\ afailed' = afailed \cup {"get_conversation_history"}
          ELSE /\ apc' = "run_mindmoney_workflow"
               /\ aevents' = IF areq.endpoint = "stream"
                             THEN Append(aevents, StartedEvent)
                             ELSE aevents
               /\ UNCHANGED <<aresp, afailed>>
    /\ UNCHANGED <<areq, asig, aresult, astages, alog>>
    /\ UNCHANGED <<anum, akeys, adel, adelat, arecorded>>
    /\ UNCHANGED <<pvars, hvars, svars>>

(* result = await run_mindmoney_workflow(...): the call does not bind, or the
   workflow raises *)
WorkflowRaises ==
    /\ apc = "run_mindmoney_workflow"
    /\ apc' = "done"
    /\ aresp' = ResponseOnError
    /\ aevents' = EventsOnError
    /\ afailed' = afailed \cup {"run_mindmoney_workflow"}
    /\ UNCHANGED <<areq, asig, aresult, astages, alog>>
    /\ UNCHANGED <<anum, akeys, adel, adelat, arecorded>>
    /\ UNCHANGED <<pvars, hvars, svars>>

(* result = await run_mindmoney_workflow(...): the call binds and the
   workflow starts; aresult is the final state it is going to return *)
WorkflowStarts ==
    /\ apc = "run_mindmoney_workflow"
    /\ Binds(asig, CallKeywords)
    /\ aresult' \in WorkflowResults
    /\ apc' = "awaiting"
    /\ UNCHANGED <<areq, asig, astages, aresp, aevents, alog, afailed>>
    /\ UNCHANGED <<anum, akeys, adel, adelat, arecorded>>
    /\ UNCHANGED <<pvars, hvars, svars>>

(* Inside the awaited workflow a stage finishes: its trace entry exists *)
StageFinishes ==
    /\ apc = "awaiting"
    /\ astages < Len(aresult.agent_log)
    /\ astages' = astages + 1
    /\ UNCHANGED <<apc, areq, asig, aresult, aresp, aevents, alog, afailed>>
    /\ UNCHANGED <<anum, akeys, adel, adelat, arecorded>>
    /\ UNCHANGED <<pvars, hvars, svars>>

(* The awaited workflow returns its final state *)
WorkflowReturns ==
    /\ apc = "awaiting"
    /\ astages = Len(aresult.agent_log)
    /\ apc' = IF areq.endpoint = "stream" THEN "yield_events" ELSE "save_state"
    /\ UNCHANGED <<areq, asig, aresult, astages, aresp, aevents, alog, afailed>>
    /\ UNCHANGED <<anum, akeys, adel, adelat, arecorded>>
    /\ UNCHANGED <<pvars, hvars, svars>>

(* for log_entry in result.get("agent_log", []): yield the agent_log event *)
YieldAgentLog ==
    /\ apc = "yield_events"
    /\ NumAgentLogEvents < Len(aresult.agent_log)
    /\ aevents' = Append(aevents,
                         AgentLogEvent(aresult.agent_log[NumAgentLogEvents + 1]))
    /\ UNCHANGED <<apc, areq, asig, aresult, astages, aresp, alog, afailed>>
    /\ UNCHANGED <<anum, akeys, adel, adelat, arecorded>>
    /\ UNCHANGED <<pvars, hvars, svars>>

(* yield the state update, then the final response *)
YieldFinalResponse ==
    /\ apc = "yield_events"
    /\ NumAgentLogEvents = Len(aresult.agent_log)
    /\ aevents' = aevents \o <<StateUpdateEvent(aresult),
                              FinalResponseEvent(aresult)>>
    /\ apc' = "save_state"
    /\ UNCHANGED <<areq, asig, aresult, astages, aresp, alog, afailed>>
    /\ UNCHANGED <<anum, akeys, adel, adelat, arecorded>>
    /\ UNCHANGED <<pvars, hvars, svars>>

(* await state_manager.save_state(request.session_id, dict(result)) *)
SaveState ==
    /\ apc = "save_state"
    /\ \E o \in StoreOutcomes :
          IF o = "raise"
          THEN /\ apc' = "done"
               /\ aresp' = ResponseOnError
               /\ aevents' = EventsOnError
               /\ afailed' = afailed \cup {"save_state"}
               /\ UNCHANGED akeys
          ELSE /\ apc' = "append_to_history"
               /\ akeys' = [akeys EXCEPT !.state = <<anum>>]
               /\ UNCHANGED <<aresp, aevents, afailed>>
    /\ UNCHANGED <<areq, asig, aresult, astages, alog>>
    /\ UNCHANGED <<anum, adel, adelat, arecorded>>
    /\ UNCHANGED <<pvars, hvars, svars>>

(* await state_manager.append_to_history(session_id, message, final_response) *)
AppendToHistory ==
    /\ apc = "append_to_history"
    /\ \E o \in StoreOutcomes :
          IF o = "raise"
          THEN /\ apc' = "done"
               /\ aresp' = ResponseOnError
               /\ aevents' = EventsOnError
               /\ afailed' = afailed \cup {"append_to_history"}
               /\ UNCHANGED akeys
          ELSE /\ apc' = "create_task"
               /\ akeys' = [akeys EXCEPT
                                !.history = Capped(Append(akeys.history, anum))]
               /\ UNCHANGED <<aresp, aevents, afailed>>
    /\ UNCHANGED <<areq, asig, aresult, astages, alog>>
    /\ UNCHANGED <<anum, adel, adelat, arecorded>>
    /\ UNCHANGED <<pvars, hvars, svars>>

(* asyncio.create_task(logger.log_conversation_turn(...)); the chat endpoint
   then builds and returns ChatResponse, the event generator ends *)
CreateTaskAndReturn ==
    /\ apc = "create_task"
    /\ alog' = "scheduled"
    /\ arecorded' = Append(arecorded, Get(aresult, "turn_number", 1))
    /\ apc' = "done"
    /\ IF areq.endpoint = "chat"
       THEN LET r == ChatResponse(aresult, areq.include_state)
            IN  /\ aresp' = IF r.raised THEN HttpError ELSE r.value
                /\ afailed' = IF r.raised THEN afailed \cup {"ChatResponse"}
                              ELSE afailed
       ELSE UNCHANGED <<aresp, afailed>>
    /\ UNCHANGED <<areq, asig, aresult, astages, aevents>>
    /\ UNCHANGED <<anum, akeys, adel, adelat>>
    /\ UNCHANGED <<pvars, hvars, svars>>

(* The event loop runs the log_conversation_turn task *)
RunLogTask ==
    /\ alog = "scheduled"
    /\ \E store \in StoreOutcomes :
          LET r == log_conversation_turn(store)
          IN  alog' = IF r.raised THEN "raised"
                      ELSE IF r.value = None THEN "failed" ELSE "ok"
    /\ UNCHANGED <<apc, areq, asig, aresult, astages, aresp, aevents, afailed>>
    /\ UNCHANGED <<anum, akeys, adel, adelat, arecorded>>
    /\ UNCHANGED <<pvars, hvars, svars>>

(* DELETE /api/chat/session/{session_id}:
   await client.delete(self._state_key(session_id)) *)
DeleteStateKey ==
    /\ adel = "none"
    /\ \E o \in StoreOutcomes :
          IF o = "raise"
          THEN adel' = "failed" /\ UNCHANGED akeys
          ELSE /\ adel' = "state_deleted"
               /\ akeys' = [akeys EXCEPT !.state = <<>>]
    /\ UNCHANGED <<apc, areq, asig, aresult, astages, aresp, aevents, alog,
                   afailed, anum, adelat, arecorded>>
    /\ UNCHANGED <<pvars, hvars, svars>>

(* await client.delete(self._history_key(session_id)); return True *)
DeleteHistoryKey ==
    /\ adel = "state_deleted"
    /\ \E o \in StoreOutcomes :
          IF o = "raise"
          THEN adel' = "failed" /\ UNCHANGED <<akeys, adelat>>
          ELSE /\ adel' = "done"
               /\ akeys' = [akeys EXCEPT !.history = <<>>]
               /\ adelat' = anum
    /\ UNCHANGED <<apc, areq, asig, aresult, astages, aresp, aevents, alog,
                   afailed, anum, arecorded>>
    /\ UNCHANGED <<pvars, hvars, svars>>

-----------------------------------------------------------------------------
(* Specifications *)

Init == PInit /\ HInit /\ AInit /\ SInit

Next == Start \/ (\E n \in Nodes : RunTask(n)) \/ ApplyWrites

Spec == Init /\ [][Next]_vars

InitStages ==
    /\ PInit
    /\ hin \in StageInputs
    /\ hstage = "none"
    /\ henv = EmptyDict
    /\ hout = NoResult
    /\ AInit
    /\ SInit

NextStages ==
    \/ ApplyIntake
    \/ ApplyFinancial
    \/ ApplyResearch
    \/ ApplySynthesizer
    \/ ApplyActionGenerator

SpecStages == InitStages /\ [][NextStages]_vars

(* The endpoints are checked against the run_mindmoney_workflow of
   workflow.py and against one that takes the keywords of the call *)
InitApi ==
    /\ PInit
    /\ HInit
    /\ SInit
    /\ apc = "idle"
    /\ areq = [endpoint |-> "none", include_state |-> TRUE]
    /\ asig \in {WorkflowParams, CallKeywords}
    /\ aresult = EmptyDict
    /\ astages = 0
    /\ aresp = NoResponse
    /\ aevents = <<>>
    /\ alog = "none"
    /\ afailed = {}
    /\ anum = 0
    /\ akeys \in {NoSession, EarlierSession}
    /\ adel = "none"
    /\ adelat = 0
    /\ arecorded = <<>>

NextApi ==
    \/ ReceiveRequest
    \/ GetState
    \/ GetConversationHistory
    \/ WorkflowRaises
    \/ WorkflowStarts
    \/ StageFinishes
    \/ WorkflowReturns
    \/ YieldAgentLog
    \/ YieldFinalResponse
    \/ SaveState
    \/ AppendToHistory
    \/ CreateTaskAndReturn
    \/ RunLogTask
    \/ DeleteStateKey
    \/ DeleteHistoryKey

SpecApi == InitApi /\ [][NextApi]_vars

(* The history key is absent or holds the turns of earlier requests *)
InitStore ==
    /\ PInit
    /\ HInit
    /\ AInit
    /\ \E k \in {0, 1, HistoryCap - 1, HistoryCap} :
          /\ skey = IF k = 0 THEN None ELSE json_dumps(EarlierTurns(k))
          /\ sappended = EarlierTurns(k)
    /\ scall = [r \in Requests |-> NotCalling]
    /\ snext = 1
    /\ soverlap = FALSE

NextStore ==
    \/ \E r \in Requests : CallAppend(r)
    \/ \E r \in Requests : ReadHistory(r)
    \/ \E r \in Requests : WriteHistory(r)

SpecStore == InitStore /\ [][NextStore]_vars

-----------------------------------------------------------------------------
(* Vocabulary of the properties *)

TurnEnded == pc \in {"done", "raised"}

(* The turn ended and no stage function raised out of its own body *)
EndedWithoutStageError == TurnEnded /\ err # "StageError"

RecordReturned == pc = "done"

EntriesOf(agent, log) == {i \in 1..Len(log) : log[i].agent = agent}

AgentOf(n) ==
    CASE n = "intake_specialist" -> "Intake Specialist"
      [] n = "wealth_architect" -> "Wealth Architect"
      [] n = "care_manager" -> "Care Manager"

HIntake == hin.intake_profile

HIntent == Intent(HIntake)

HHasAnxiety ==
    /\ "anxiety" \in DOMAIN Get(HIntake, "emotional_state", EmptyDict)
    /\ IsNumber(Get(HIntake, "emotional_state", EmptyDict), "anxiety")

HAnxiety == Get(Get(HIntake, "emotional_state", EmptyDict), "anxiety", 0)

HShame == Get(Get(HIntake, "emotional_state", EmptyDict), "shame", 0)

HCrisis == Get(Get(HIntake, "safety_concerns", EmptyDict), "crisis_flag", FALSE)

HMissing == Len(Get(HIntake, "missing_info", <<>>))

HReturned == hstage # "none" /\ ~hout.raised

HEntry == hout.update.agent_log[1]

(* ResponseSynthesis got as far as choosing a prompt and calling the capability *)
HSynthSelected == hstage = "synthesizer" /\ ~hout.raised

HPrompt == hout.request.prompt

ResultField(stage) ==
    CASE stage = "financial" -> "financial_profile"
      [] stage = "research" -> "market_data"
      [] stage = "action" -> "action_plan"

EmptyMarker(stage) ==
    CASE stage = "financial" -> EmptyDict
      [] stage = "research" -> <<>>
      [] stage = "action" -> None

GatedStages == {"financial", "research", "action"}

-----------------------------------------------------------------------------
(* C1: whenever ResponseSynthesis returns - whether its capability call
   succeeded, raised, or returned empty or whitespace-only text - the
   final_response it writes to the record is a non-empty string. *)
C1_FinalResponseNonEmpty ==
    HSynthSelected => hout.update.final_response # <<>>

(* C2: when a turn ends (no stage having raised out of its body), a record is
   returned whose agent_log holds exactly one entry for every stage that was
   run in the turn. *)
C2_TraceOneEntryPerStage ==
    EndedWithoutStageError =>
        /\ RecordReturned
        /\ \A n \in Nodes :
              runs[n] > 0 =>
                  Cardinality(EntriesOf(AgentOf(n), state.agent_log)) = 1

(* C3: the trace is merged additively: merging the trace writes of the stages
   of one parallel step never fails, and the entry of every stage whose update
   was merged is in the trace. *)
C3_TraceMergeAdditive ==
    /\ err # "InvalidUpdateError"
    /\ \A n \in applied : EntriesOf(AgentOf(n), state.agent_log) # {}

(* C4: FinancialAnalysis evaluates its intent gate only on a record into which
   Intake's intake_profile has already been merged. *)
C4_IntakeBeforeGate ==
    runs["wealth_architect"] > 0 => sawIntake["wealth_architect"]

(* C5: FinancialAnalysis, MarketResearch and ActionPlan call their capability
   only if the intent is DATA_SUBMISSION; for any other intent the stage
   returns (it does not raise), makes no call, returns its empty marker and
   exactly one trace entry, of status "idle", with a reason. *)
C5_GatedStagesSkip ==
    hstage \in GatedStages =>
        /\ hout.calls > 0 => HIntent = "DATA_SUBMISSION"
        /\ HIntent # "DATA_SUBMISSION" =>
              /\ ~hout.raised
              /\ hout.calls = 0
              /\ hout.update[ResultField(hstage)] = EmptyMarker(hstage)
              /\ Len(hout.update.agent_log) = 1
              /\ HEntry.status = "idle"
              /\ HEntry.thought # ""

C5_Witness ==
    /\ hstage = "financial"
    /\ HIntent = "CLARIFICATION"
    /\ henv # [client |-> "raise"]
    /\ hout.calls = 0
    /\ HEntry.status = "idle"

(* C6: ResponseSynthesis runs only on a record into which the updates of Intake
   and FinancialAnalysis have been merged, and in every turn that ends (no
   stage having raised out of its body) it has run exactly once. *)
C6_SynthesisOnceAfterJoin ==
    /\ runs["care_manager"] > 0 =>
          {"intake_specialist", "wealth_architect"} \subseteq applied
    /\ EndedWithoutStageError => runs["care_manager"] = 1

(* C7: what MarketResearch returns does not depend on financial_profile, the
   field FinancialAnalysis writes: applied after FinancialAnalysis it returns
   what it returns on the post-Intake record (financial_profile = {}). *)
C7_ResearchIgnoresFinancial ==
    hstage = "research" =>
        hout = run_research_agent(
                   [hin EXCEPT !.financial_profile = EmptyDict], henv)

(* C8: whenever the intake safety flag is set, ResponseSynthesis selects the
   crisis-support variant, for every intent, anxiety, shame and
   missing-information count. *)
C8_SafetyFlagFirst ==
    (HSynthSelected /\ HCrisis) => HPrompt = CARE_PROMPT_STRESSED

(* C9 as stated: intent DATA_SUBMISSION, safety flag unset, anxiety >= 8
   selects the de-escalation variant, which presents exactly one step. *)
C9_OneStep ==
    (HSynthSelected /\ HIntent = "DATA_SUBMISSION" /\ ~HCrisis /\ HAnxiety >= 8)
        => /\ HPrompt.name = "STRESSED"
           /\ HPrompt.bullet_points = 1

(* C9 amended: intent DATA_SUBMISSION, safety flag unset, anxiety >= 8 selects
   the high-stress de-escalation prompt (style "crisis_support"), and that
   prompt asks for 3 bullet points. *)
C9_ThreeBullets ==
    (HSynthSelected /\ HIntent = "DATA_SUBMISSION" /\ ~HCrisis /\ HAnxiety >= 8)
        => /\ HPrompt.name = "STRESSED"
           /\ HPrompt.role = "crisis de-escalation specialist"
           /\ HPrompt.bullet_points = 3
           /\ "strategy_decision" \notin DOMAIN hout.update
           /\ hout.update.agent_log[1].status = "complete" =>
                  HEntry.output_state.response_style = "crisis_support"

C9_Witness ==
    /\ HSynthSelected
    /\ HIntent = "DATA_SUBMISSION" /\ ~HCrisis /\ HAnxiety = 8
    /\ HEntry.status = "complete"
    /\ HPrompt = CARE_PROMPT_STRESSED

(* C10 as stated: with the safety flag unset and the shame rule not matching,
   anxiety 5..7 selects the simplified variant and anxiety below 5 with at
   most 2 missing-information items selects the full-plan variant. *)
C10_SpecThresholds ==
    (/\ HSynthSelected /\ HIntent = "DATA_SUBMISSION"
     /\ ~HCrisis /\ HShame < 7 /\ HHasAnxiety)
        => /\ HAnxiety \in 5..7 => HPrompt.name = "MODERATE"
           /\ (HAnxiety < 5 /\ HMissing <= 2) => HPrompt.name = "CALM"

(* C10 amended: for an intent other than GREETING and CLARIFICATION, anxiety
   4..6 selects the moderate (simplified) variant and anxiety below 4 the calm
   (full-plan) variant, whatever the safety flag, the shame score and the
   missing-information count; anxiety 7 selects the high-stress variant. *)
C10_CodeThresholds ==
    (HSynthSelected /\ HIntent \notin {"GREETING", "CLARIFICATION"} /\ HHasAnxiety)
        => /\ HAnxiety \in 4..6 <=> HPrompt.name = "MODERATE"
           /\ HAnxiety < 4 <=> HPrompt.name = "CALM"
           /\ HAnxiety >= 7 <=> HPrompt.name = "STRESSED"

C10_Witness ==
    /\ HSynthSelected
    /\ HIntent = "DATA_SUBMISSION" /\ HHasAnxiety /\ HAnxiety = 4
    /\ HPrompt.name = "MODERATE"

-----------------------------------------------------------------------------
(* Vocabulary of the error-handling properties *)

HAnxietyMissing ==
    "anxiety" \notin DOMAIN Get(HIntake, "emotional_state", EmptyDict)

(* The stage function the harness applied *)
StageFn(stage, st, env) ==
    CASE stage = "intake" -> run_intake_agent(st, env)
      [] stage = "financial" -> run_financial_agent(st, env)
      [] stage = "research" -> run_research_agent(st, env)
      [] stage = "synthesizer" -> run_synthesizer_agent(st, env)
      [] stage = "action" -> run_action_generator(st, env)

StructuredStages == {"intake", "financial", "action"}

(* The client was constructed and generate_content raised *)
CallFailed == [client |-> "ok", reply |-> [kind |-> "raise"]]

(* The client was constructed and the reply is text that is no JSON *)
HUnparsable ==
    /\ hstage \in StructuredStages
    /\ henv.client = "ok"
    /\ henv.reply.kind = "text"

(* A capability the stage depends on failed at some point of the stage *)
HCapabilityFailed ==
    \/ /\ hstage \in {"intake", "financial", "synthesizer", "action"}
       /\ \/ henv.client = "raise"
          \/ henv.client = "ok" /\ henv.reply.kind = "raise"
    \/ /\ hstage = "research"
       /\ \/ henv.tools = "missing"
          \/ henv.tools = "ok" /\ henv.search = "raise"

FinancialRequired ==
    {"financial_health_score", "debt_analysis", "major_challenges",
     "detailed_strategy"}

ActionRequired == {"immediate_actions", "quick_wins"}

-----------------------------------------------------------------------------
(* C11: when intake_result carries no anxiety score, a DATA_SUBMISSION turn
   with the safety flag unset is compared as if the score were 5 and selects
   the middle-ground (moderate) variant, not the calm one. *)
C11_MissingAnxietyMidpoint ==
    (HSynthSelected /\ HIntent = "DATA_SUBMISSION" /\ HAnxietyMissing /\ ~HCrisis)
        => HPrompt.name = "MODERATE"

(* C12: for every intake_result the Intake stage can leave in the record, a
   gated stage or ResponseSynthesis whose client could be constructed decides
   and selects without raising, and ResponseSynthesis reaches its capability
   call. *)
C12_SelectionTotal ==
    (/\ hstage \in GatedStages \cup {"synthesizer"}
     /\ hstage # "research" => henv.client = "ok")
        => /\ ~hout.raised
           /\ hstage = "synthesizer" => hout.calls = 1

(* C14: when Intake's capability call raises, Intake returns an intake_result
   with intent CLARIFICATION and emotional scores, a "failed" trace entry and
   one entry for the errors list. *)
C14_IntakeFallback ==
    (hstage = "intake" /\ henv = CallFailed)
        => /\ ~hout.raised
           /\ HEntry.status = "failed"
           /\ Intent(hout.update.intake_profile) = "CLARIFICATION"
           /\ "emotional_state" \in DOMAIN hout.update.intake_profile
           /\ "errors" \in DOMAIN hout.update

(* C15: in Intake, FinancialAnalysis and ActionPlan a reply that is no JSON
   gives the same stage result as a capability call that raised. *)
C15_UnparsableAsFailure ==
    HUnparsable => hout.update = StageFn(hstage, hin, CallFailed).update

(* C16: whichever capability fails and wherever in the stage it fails - the
   client construction included - the stage returns a partial update and does
   not raise. *)
C16_NoFailurePropagates ==
    (hstage # "none" /\ HCapabilityFailed) => ~hout.raised

(* C17: a stage that returns with a "failed" trace entry also returns one
   entry for the errors list of the record. *)
C17_FailureRecordedInErrors ==
    (HReturned /\ HEntry.status = "failed")
        => /\ "errors" \in DOMAIN hout.update
           /\ Len(hout.update.errors) = 1

(* C18: after FinancialAnalysis returns, financial_profile is present and is
   the empty skip marker, the error marker, or an object with every required
   field; after ActionPlan returns, action_plan is the skip marker or an
   object with every required field. *)
C18_ResultWholeOrMarker ==
    /\ (hstage = "financial" /\ ~hout.raised)
          => /\ "financial_profile" \in DOMAIN hout.update
             /\ \/ hout.update.financial_profile \in {EmptyDict, FinancialError}
                \/ FinancialRequired \subseteq
                       DOMAIN hout.update.financial_profile
    /\ (hstage = "action" /\ ~hout.raised)
          => /\ "action_plan" \in DOMAIN hout.update
             /\ \/ hout.update.action_plan = None
                \/ ActionRequired \subseteq DOMAIN hout.update.action_plan

(* C19: ActionPlan calls its capability only when intent is DATA_SUBMISSION
   and financial_profile is non-empty and is not the error marker. *)
C19_ActionNeedsFinancialResult ==
    (hstage = "action" /\ hout.calls > 0)
        => /\ HIntent = "DATA_SUBMISSION"
           /\ Truthy(hin.financial_profile)
           /\ hin.financial_profile # FinancialError

(* C20: when intent is DATA_SUBMISSION and financial_profile is the error
   marker, ResponseSynthesis writes final_response, passes no financial
   analysis to the capability and does not report financial data as used. *)
C20_ErrorMarkerNotUsed ==
    (/\ HSynthSelected /\ HIntent = "DATA_SUBMISSION"
     /\ hin.financial_profile = FinancialError)
        => /\ "final_response" \in DOMAIN hout.update
           /\ Get(hout.request, "financial_analysis", EmptyDict) = EmptyDict
           /\ HEntry.status = "complete" =>
                  ~HEntry.output_state.used_financial_data

-----------------------------------------------------------------------------
(* Properties of single stages, continued *)

HResearchOn == hstage = "research" /\ HIntent = "DATA_SUBMISSION"

SearchFailed == [tools |-> "ok", search |-> "raise"]

(* C28: when MarketResearch is gated on and the search tools cannot be
   imported, the stage returns without a search call, with market_data empty
   and one trace entry that is "idle" (not "failed") and gives the reason
   "Tavily not configured"; the returned update differs from the update of a
   search that was attempted and raised. *)
C28_UnavailableIsNotFailure ==
    (HResearchOn /\ henv.tools = "missing")
        => /\ ~hout.raised
           /\ hout.calls = 0
           /\ hout.update.market_data = <<>>
           /\ Len(hout.update.agent_log) = 1
           /\ HEntry.status = "idle"
           /\ HEntry.output_state.reason = "Tavily not configured"
           /\ hout.update # run_research_agent(hin, SearchFailed).update

C28_Witness ==
    /\ HResearchOn
    /\ henv.tools = "missing"
    /\ HEntry.status = "idle"
    /\ run_research_agent(hin, SearchFailed).update.agent_log[1].status = "failed"

(* C29: on every return path of ResponseSynthesis the update holds exactly
   one trace entry, and that entry names the selected style and the reason
   of the selection. *)
C29_EntryExplainsSelection ==
    HSynthSelected
        => /\ Len(hout.update.agent_log) = 1
           /\ {"response_style", "style_reason"} \subseteq
                  DOMAIN HEntry.output_state

(* C30: whichever stage is applied and whatever its capability does, the
   stage calls the capability at most once; a stage whose call raised made
   exactly that one call and returns its "failed" entry. *)
C30_NoRetries ==
    hstage # "none"
        => /\ hout.calls <= 1
           /\ (HReturned /\ HEntry.status = "failed") => hout.calls = 1

C30_Witness ==
    /\ hstage = "action"
    /\ henv = CallFailed
    /\ HIntent = "DATA_SUBMISSION"
    /\ HEntry.status = "failed"
    /\ hout.calls = 1

-----------------------------------------------------------------------------
(* Properties of the endpoints and of the history store *)

AChat == areq.endpoint = "chat"

AStream == areq.endpoint = "stream"

ARequestEnded == apc = "done"

EventsOf(kind) == {i \in 1..Len(aevents) : aevents[i].event = kind}

(* The reply the endpoint owes the client for the final state it computed *)
ComputedReply == ChatResponse(aresult, areq.include_state)

(* Exception text in what the client receives *)
ExposesErrorText ==
    \/ /\ aresp.kind = "http_error"
       /\ \E i \in 1..Len(aresp.detail) : aresp.detail[i] = ErrorText
    \/ \E i \in EventsOf("error") : aevents[i].data.error = ErrorText
    \/ \E i \in EventsOf("agent_log") :
          Get(aevents[i].data.output_state, "error", "") = ErrorText
    \/ /\ aresp.kind = "reply"
       /\ aresp.state # None
       /\ Get(Get(aresp.state, "intake_profile", EmptyDict), "error", "")
              = ErrorText

(* C21: whenever a request to the chat endpoint has ended, the client has
   received a reply that carries a final_response string, not an error
   response. *)
C21_ChatAlwaysReplies ==
    (AChat /\ ARequestEnded) => aresp.kind = "reply"

(* C22: when get_state or get_conversation_history raises at the start of a
   chat request, the request still ends with a reply. *)
C22_ReadFailureTolerated ==
    (/\ AChat /\ ARequestEnded
     /\ afailed \cap {"get_state", "get_conversation_history"} # {})
        => aresp.kind = "reply"

(* C23: when save_state or append_to_history raises after the workflow has
   returned its final state, the chat endpoint still returns the computed
   reply and the streaming endpoint yields no error event. *)
C23_WriteFailureSwallowed ==
    (/\ ARequestEnded
     /\ afailed \cap {"save_state", "append_to_history"} # {})
        => /\ AChat => aresp.kind = "reply"
           /\ AStream => EventsOf("error") = {}

(* C24: the log_conversation_turn task is only scheduled by the request, which
   ends in the same step without waiting for it; the task never raises,
   whatever the log store does; and when the store fails, a request in which
   nothing else failed has answered with the reply computed from the final
   state (chat) or with the final-response event as its last event (stream). *)
C24_LogFailureHarmless ==
    /\ alog # "raised"
    /\ alog = "scheduled" => ARequestEnded
    /\ (alog = "failed" /\ afailed = {})
          => /\ AChat => aresp = ComputedReply.value
             /\ AStream => aevents[Len(aevents)] = FinalResponseEvent(aresult)

C24_Witness ==
    /\ ARequestEnded
    /\ alog = "failed"
    /\ afailed = {}
    /\ AChat
    /\ aresp.kind = "reply"
    /\ aresp.response = <<"words">>

(* C25: when a request has ended, nothing the client received - reply, state,
   trace, HTTP error detail, stream events - holds the text of an
   exception. *)
C25_NoErrorTextToClient ==
    ARequestEnded => ~ExposesErrorText

(* C26 as stated: at every moment, after any calls of append_to_history, the
   stored history is the last HistoryCap turns, in order, of the turns whose
   call has returned. *)
C26_HistoryIsRecentWindow ==
    get_conversation_history(skey) = LastN(sappended, HistoryCap)

(* C26 amended: the stored history never holds more than HistoryCap turns;
   and as long as no call of append_to_history has started while another one
   was in progress, it is the last HistoryCap turns, in order, of the turns
   whose call has returned. *)
C26_WindowWhenCallsDoNotOverlap ==
    /\ Len(get_conversation_history(skey)) <= HistoryCap
    /\ ~soverlap =>
          get_conversation_history(skey) = LastN(sappended, HistoryCap)

C26_Witness ==
    /\ ~soverlap
    /\ Len(sappended) = HistoryCap + 2
    /\ Len(get_conversation_history(skey)) = HistoryCap
    /\ get_conversation_history(skey)[1] = sappended[3]
    /\ get_conversation_history(skey)[HistoryCap] = Turn(2)

(* C27: in the streaming endpoint the trace entry of a stage has been yielded
   before the stages after it have all finished, and the final-response
   event is yielded once, after every agent_log event. *)
C27_TraceStreamedAsAvailable ==
    AStream
        => /\ (apc = "awaiting" /\ astages = Len(aresult.agent_log))
                 => NumAgentLogEvents >= Len(aresult.agent_log) - 1
           /\ Cardinality(EventsOf("final_response")) <= 1
           /\ \A i \in EventsOf("agent_log"), j \in EventsOf("final_response") :
                 i < j

-----------------------------------------------------------------------------
(* Properties of the partial updates *)

(* The field of the record that is the output of the stage *)
OwnField(stage) ==
    CASE stage = "intake" -> "intake_profile"
      [] stage = "synthesizer" -> "final_response"
      [] OTHER -> ResultField(stage)

TraceStatuses == {"complete", "idle", "failed"}

FinancialVariants == {"STRESSED", "MODERATE", "CALM"}

(* C31: a stage that returns sets, besides the trace and errors, its own
   output field and no other; and that field is a key of MindMoneyState, so
   the graph keeps the write in the record it returns. *)
C31_SingleWriterInSchema ==
    HReturned
        => /\ DOMAIN hout.update \ {"agent_log", "errors"} = {OwnField(hstage)}
           /\ OwnField(hstage) \in SchemaKeys

(* C32: every stage, on every return path, returns an update that holds its
   own output field and agent_log and nothing else, and agent_log holds one
   entry whose status is complete, idle or failed. *)
C32_OneEntryOneField ==
    HReturned
        => /\ DOMAIN hout.update = {OwnField(hstage), "agent_log"}
           /\ Len(hout.update.agent_log) = 1
           /\ HEntry.status \in TraceStatuses

C32_Witness ==
    /\ hstage = "research"
    /\ HReturned
    /\ HEntry.status = "complete"
    /\ DOMAIN hout.update = {"market_data", "agent_log"}

(* C33: ResponseSynthesis selects the stressed, moderate or calm prompt only
   for an intake_profile on which FinancialAnalysis is gated on, whatever
   intent Intake returned. *)
C33_GatingConsistent ==
    (HSynthSelected /\ HPrompt.name \in FinancialVariants)
        => FinancialGate(HIntent)

(* C38: every trace entry a stage returns has the fields agent_name,
   input_summary and output_summary that AgentLogEntry requires and the log
   store reads. *)
C38_EntryHasSchemaFields ==
    HReturned => AgentLogEntryRequired \subseteq DOMAIN HEntry

(* C34: when no append_to_history call is in progress, every turn among the
   last HistoryCap turns whose call returned is in the stored history, also
   when the calls interleaved. *)
C34_NoLostTurn ==
    (\A r \in Requests : scall[r].pc = "idle")
        => \A i \in 1..Len(sappended) :
              i > Len(sappended) - HistoryCap
                  => \E j \in 1..Len(get_conversation_history(skey)) :
                        get_conversation_history(skey)[j] = sappended[i]

-----------------------------------------------------------------------------
(* Properties of the session in the store *)

(* The key holds the write of request n *)
Holds(key, n) == \E i \in 1..Len(key) : key[i] = n

(* C35: when a chat request has ended (and no delete_session ran), an error
   response means neither the state nor the history holds the write of this
   request, and a reply means both do. *)
C35_StateAndHistoryTogether ==
    (AChat /\ ARequestEnded /\ adel = "none")
        => /\ aresp.kind = "http_error"
                 => /\ ~Holds(akeys.state, anum)
                    /\ ~Holds(akeys.history, anum)
           /\ aresp.kind = "reply"
                 => /\ Holds(akeys.state, anum)
                    /\ Holds(akeys.history, anum)

(* C36: once delete_session has completed, the state and the history of the
   session hold nothing but writes of requests that were received after the
   deletion completed. *)
C36_DeleteIsFinal ==
    adel = "done"
        => /\ \A n \in 0..anum : Holds(akeys.state, n) => n > adelat
           /\ \A n \in 0..anum : Holds(akeys.history, n) => n > adelat

(* C37: the turn numbers passed to the analytics log for the successive turns
   of a session are strictly increasing. *)
C37_TurnNumberIncreases ==
    \A i, j \in 1..Len(arecorded) : i < j => arecorded[i] < arecorded[j]

====
